---- MODULE Spec2Model ----
(***************************************************************************)
(* mongodb-log-tools: the info subcommand over structured log files.       *)
(*                                                                         *)
(* List reads the file line by line, logLine decodes a line and merges the *)
(* startup messages into the accumulator startupInfoT, printStartup prints *)
(* the report once the accumulator is complete, and List prints the        *)
(* summary at the end of the stream.  The repository holds two variants of *)
(* the package: the baseline one (src/info/info.go) and the extended one   *)
(* (src/unnamed/part_000: REPL records, "Process Details", replica set).   *)
(*                                                                         *)
(* Time is counted in milliseconds since 0001-01-01T00:00:00Z, the zero    *)
(* value of time.Time; the sample records are dated on the first days of   *)
(* that era so that the numbers stay small.                                *)
(***************************************************************************)
EXTENDS Integers, Sequences, FiniteSets, TLC

VARIABLES
    variant,      \* which of the two packages runs: "baseline" or "extended"
    file,         \* the lines of the log file, by their names in LineTable
    pc,           \* position of List (or of a direct caller of printStartup)
    lineCount,    \* List: lineCount
    firstTime,    \* List: firstTime
    earliest,     \* List: earliest
    latest,       \* List: latest
    startupInfo,  \* List: startupInfo, the accumulator
    out,          \* what has been printed on standard output, in order
    result,       \* what List returned: NoResult while it runs
    driver,       \* which main runs the passes: "none", "loop" or "single"
    args,         \* main: the file arguments of the info subcommand
    iFile         \* main: the number of passes that are over

mainVars == <<driver, args, iFile>>

vars == <<variant, file, pc, lineCount, firstTime, earliest, latest,
          startupInfo, out, result, driver, args, iFile>>

-----------------------------------------------------------------------------
(* JSON values as encoding/json decodes them into `any`.                    *)

Null == [t |-> "nil"]
Num(n) == [t |-> "num", n |-> n]
Str(s) == [t |-> "str", s |-> s]
Obj(m) == [t |-> "map", m |-> m]
\* A value yaml.Marshal returns an error for.  It stands for the error
\* branch of getConfig, which the code handles in three places.
Unmarshalable == [t |-> "bad"]

EmptyMap == [k \in {} |-> Null]

IsNum(m, k) == k \in DOMAIN m /\ m[k].t = "num"
IsStr(m, k) == k \in DOMAIN m /\ m[k].t = "str"
IsMap(m, k) == k \in DOMAIN m /\ m[k].t = "map"
GetNum(m, k) == IF IsNum(m, k) THEN m[k].n ELSE 0
GetStr(m, k) == IF IsStr(m, k) THEN m[k].s ELSE ""
GetMap(m, k) == IF IsMap(m, k) THEN m[k].m ELSE EmptyMap
GetObj(m, k) == IF IsMap(m, k) THEN m[k] ELSE Null

\* The decimal strings of the sample records, for strconv.Atoi.
DecimalStrings == ("100" :> 100) @@ ("16875" :> 16875)

Atoi(s) ==
    IF s \in DOMAIN DecimalStrings
    THEN [n |-> DecimalStrings[s], err |-> FALSE]
    ELSE [n |-> 0, err |-> TRUE]

RECURSIVE Marshalable(_)
Marshalable(v) ==
    CASE v.t = "bad" -> FALSE
      [] v.t = "map" -> \A k \in DOMAIN v.m : Marshalable(v.m[k])
      [] OTHER -> TRUE

Yaml(m) == [t |-> "yaml", of |-> m]

getConfig(config) ==
    IF Marshalable(Obj(config))
    THEN [bytes |-> Yaml(config), err |-> FALSE]
    ELSE [bytes |-> Null, err |-> TRUE]

-----------------------------------------------------------------------------
(* time.Time: an instant and the zone offset the timestamp was written in.  *)

SecondsPerHour == 3600
SecondsPerMinute == 60

ZeroTime == [inst |-> 0, off |-> 0]

timeLayout == "2006-01-02T15:04:05.999-07:00"
skippingLines == "HEADER INCLUDED, NOW SKIPPING"

\* A $date string: the layout it is written in, the wall clock reading (ms)
\* and the numeric zone offset (seconds east of UTC).
Date(wall, off) == [layout |-> timeLayout, wall |-> wall, off |-> off]
DateOther(wall) == [layout |-> "Jan _2 15:04:05", wall |-> wall, off |-> 0]

\* Mutant: a timestamp of any layout is taken as parsed.
timeParseAnyLayout(layout, d) ==
    [t |-> [inst |-> d.wall - d.off * 1000, off |-> d.off], err |-> FALSE]

timeParse(layout, d) ==
    IF d.layout = layout
    THEN [t |-> [inst |-> d.wall - d.off * 1000, off |-> d.off], err |-> FALSE]
    ELSE [t |-> ZeroTime, err |-> TRUE]

\* Mutant: the wall clock readings are compared, not the instants.
BeforeOnTheWall(a, b) == a.inst + a.off * 1000 < b.inst + b.off * 1000

Before(a, b) == a.inst < b.inst
After(a, b) == a.inst > b.inst
Sub(a, b) == a.inst - b.inst
\* t.UTC().Format(time.ANSIC): the instant to the second.
FormatUTC(t) == t.inst \div 1000

\* Go's integer division and remainder truncate toward zero.
GoDiv(a, b) == IF a >= 0 THEN a \div b ELSE -((-a) \div b)
GoRem(a, b) == IF a >= 0 THEN a % b ELSE -((-a) % b)

-----------------------------------------------------------------------------
(* The lines a log file is made of.  A line that is not JSON has only its   *)
(* leading text; a record line has the fields of logJSONT that logLine      *)
(* reads: t.$date, c, msg and attr.                                         *)

Text(head) == [head |-> head, valid |-> FALSE]
Record(date, c, msg, attr) ==
    [head |-> "{", valid |-> TRUE, date |-> date, c |-> c, msg |-> msg, attr |-> attr]

OptionsDoc == [config |-> Str("/etc/mongod.conf"), net |-> Obj([port |-> Num(27017)])]
ReplDoc == [_id |-> Str("rs0")]

LineTable ==
    [ banner |-> Text(skippingLines),
      garbage |-> Text("{\"t\":{\"$date\""),
      badDate |->
        Record(DateOther(90000000), "CONTROL", "Options set by command line",
               Obj([options |-> Obj(OptionsDoc)])),
      starting |->
        Record(Date(90004886, -25200), "CONTROL", "MongoDB starting",
               Obj([pid |-> Num(100), port |-> Num(27017), host |-> Str("h1"),
                    dbPath |-> Str("/data/db")])),
      startingB |->
        Record(Date(130000000, 19800), "CONTROL", "MongoDB starting",
               Obj([pid |-> Num(200), port |-> Num(27018), host |-> Str("h2"),
                    dbPath |-> Str("/data/db2")])),
      startingNoPort |->
        Record(Date(90004000, -25200), "CONTROL", "MongoDB starting",
               Obj([pid |-> Num(100), host |-> Str("h1"), dbPath |-> Str("/data/db")])),
      processDetails |->
        Record(Date(90009000, -25200), "CONTROL", "Process Details",
               Obj([pid |-> Str("16875"), port |-> Num(27017),
                    architecture |-> Str("64-bit"), host |-> Str("pd3lon-mdb-07")])),
      processBadPid |->
        Record(Date(90009500, -25200), "CONTROL", "Process Details",
               Obj([pid |-> Str("16875x"), port |-> Num(27017), host |-> Str("h3")])),
      buildInfo |->
        Record(Date(90003000, -25200), "CONTROL", "Build Info",
               Obj([buildInfo |-> Obj([version |-> Str("6.0.1"),
                    environment |-> Obj([distmod |-> Str("ubuntu2004")])])])),
      operatingSystem |->
        Record(Date(90006000, -25200), "CONTROL", "Operating System",
               Obj([os |-> Obj([name |-> Str("Linux"), version |-> Str("5.4")])])),
      member |->
        Record(Date(90002000, -25200), "REPL", "Node is a member of a replica set",
               Obj([memberState |-> Str("PRIMARY"), config |-> Obj(ReplDoc)])),
      memberBad |->
        Record(Date(90002500, -25200), "REPL", "Node is a member of a replica set",
               Obj([memberState |-> Str("SECONDARY"),
                    config |-> Obj([_id |-> Unmarshalable])])),
      newConfig |->
        Record(Date(90008000, -25200), "REPL", "New replica set config in use",
               Obj([config |-> Obj([_id |-> Str("rs0"), version |-> Num(2)])])),
      \* a config document yaml.Marshal returns an error for
      newConfigBad |->
        Record(Date(90008500, -25200), "REPL", "New replica set config in use",
               Obj([config |-> Obj([_id |-> Unmarshalable])])),
      options |->
        Record(Date(90007000, -25200), "CONTROL", "Options set by command line",
               Obj([options |-> Obj(OptionsDoc)])),
      optionsBad |->
        Record(Date(90007500, -25200), "CONTROL", "Options set by command line",
               Obj([options |-> Obj([config |-> Str("/etc/m2.conf"),
                                     setParameter |-> Unmarshalable])])),
      \* config beside options instead of inside it
      optionsApart |->
        Record(Date(90007000, -25200), "CONTROL", "Options set by command line",
               Obj([config |-> Str("/etc/mongod.conf"),
                    options |-> Obj([net |-> Obj([port |-> Num(27017)])])])),
      optionsNetwork |->
        Record(Date(90001000, -25200), "NETWORK", "Options set by command line",
               Obj([options |-> Obj(OptionsDoc)])),
      optionsNoAttr |->
        Record(Date(90001500, -25200), "CONTROL", "Options set by command line", Null),
      other |->
        Record(Date(89000000, -25200), "CONTROL", "***** SERVER RESTARTED *****",
               Obj([x |-> Num(1)])) ]

LineNames == DOMAIN LineTable

-----------------------------------------------------------------------------
(* startupInfoT and logLine.                                                *)

ZeroInfo ==
    [ isStartup |-> FALSE, complete |-> FALSE, timeStamp |-> ZeroTime,
      processID |-> 0, port |-> 0, dbPath |-> "", hostName |-> "",
      version |-> "", distro |-> "", os |-> "", osVersion |-> "",
      configFile |-> "", options |-> Null, configYAML |-> Null,
      memberState |-> "", replsetConfig |-> Null, replsetConfigYAML |-> Null ]

\* The statements of one switch case, in order.  Each is a type assertion
\* (ok: whether it succeeds) followed by an assignment to a field (f = ""
\* when the value goes to a local).  A failed assertion panics, and the
\* assignments before it have been made.
Set(f, v) == [ok |-> TRUE, f |-> f, v |-> v]
Req(ok, f, v) == [ok |-> ok, f |-> f, v |-> v]
Chk(ok) == [ok |-> ok, f |-> "", v |-> Null]

RECURSIVE Run(_, _)
Run(info, steps) ==
    IF Len(steps) = 0 THEN [info |-> info, panic |-> FALSE]
    ELSE LET s == Head(steps) IN
         IF ~s.ok THEN [info |-> info, panic |-> TRUE]
         ELSE Run(IF s.f = "" THEN info ELSE [info EXCEPT ![s.f] = s.v], Tail(steps))

\* Mutant: no allow-list, a record of any component is merged.
ComponentsAny(v) == {"CONTROL", "REPL", "NETWORK"}

Components(v) == IF v = "extended" THEN {"CONTROL", "REPL"} ELSE {"CONTROL"}

Messages(v) ==
    {"MongoDB starting", "Build Info", "Operating System", "Options set by command line"}
    \cup (IF v = "extended"
          THEN {"Process Details", "Node is a member of a replica set",
                "New replica set config in use"}
          ELSE {})

\* Mutant: "MongoDB starting" marks the accumulator complete.
CaseStartingCompletes(attr, ts) ==
    << Set("isStartup", TRUE),
       Set("timeStamp", ts),
       Req(IsNum(attr, "pid"), "processID", GetNum(attr, "pid")),
       Req(IsNum(attr, "port"), "port", GetNum(attr, "port")),
       Req(IsStr(attr, "host"), "hostName", GetStr(attr, "host")),
       Req(IsStr(attr, "dbPath"), "dbPath", GetStr(attr, "dbPath")),
       Set("complete", TRUE) >>

CaseStarting(attr, ts) ==
    << Set("isStartup", TRUE),
       Set("timeStamp", ts),
       Req(IsNum(attr, "pid"), "processID", GetNum(attr, "pid")),
       Req(IsNum(attr, "port"), "port", GetNum(attr, "port")),
       Req(IsStr(attr, "host"), "hostName", GetStr(attr, "host")),
       Req(IsStr(attr, "dbPath"), "dbPath", GetStr(attr, "dbPath")) >>

\* Mutant: the pid of "Process Details" is read as a number, as the pid of
\* "MongoDB starting" is.
CaseProcessDetailsNumericPid(attr, ts) ==
    << Set("isStartup", FALSE),
       Set("timeStamp", ts),
       Req(IsNum(attr, "pid"), "processID", GetNum(attr, "pid")),
       Req(IsNum(attr, "port"), "port", GetNum(attr, "port")),
       Req(IsStr(attr, "host"), "hostName", GetStr(attr, "host")) >>

CaseProcessDetails(attr, ts) ==
    << Set("isStartup", FALSE),
       Set("timeStamp", ts),
       Req(IsStr(attr, "pid"), "processID", Atoi(GetStr(attr, "pid")).n),
       Req(IsNum(attr, "port"), "port", GetNum(attr, "port")),
       Req(IsStr(attr, "host"), "hostName", GetStr(attr, "host")) >>

CaseBuildInfo(attr) ==
    LET biattrb == GetMap(attr, "buildInfo")
        biattrenv == GetMap(biattrb, "environment")
    IN << Chk(IsMap(attr, "buildInfo")),
          Req(IsStr(biattrb, "version"), "version", GetStr(biattrb, "version")),
          Chk(IsMap(biattrb, "environment")),
          Req(IsStr(biattrenv, "distmod"), "distro", GetStr(biattrenv, "distmod")) >>

CaseOperatingSystem(attr) ==
    LET osattros == GetMap(attr, "os")
    IN << Chk(IsMap(attr, "os")),
          Req(IsStr(osattros, "name"), "os", GetStr(osattros, "name")),
          Req(IsStr(osattros, "version"), "osVersion", GetStr(osattros, "version")) >>

CaseMember(attr) ==
    << Req(IsStr(attr, "memberState"), "memberState", GetStr(attr, "memberState")),
       Req(IsMap(attr, "config"), "replsetConfig", GetObj(attr, "config")),
       Set("replsetConfigYAML", getConfig(GetMap(attr, "config")).bytes) >>

CaseNewConfig(attr) ==
    << Chk(IsMap(attr, "config")) >>
    \o (IF getConfig(GetMap(attr, "config")).err
        THEN << Set("replsetConfigYAML", Null) >>
        ELSE << >>)

\* Mutant: a failed rendering leaves the accumulator incomplete.
CaseOptionsNeedsRendering(attr) ==
    LET opattropts == GetMap(attr, "options")
    IN << Chk(IsMap(attr, "options")),
          Req(IsStr(opattropts, "config"), "configFile", GetStr(opattropts, "config")),
          Set("options", GetObj(attr, "options")),
          Set("configYAML", getConfig(opattropts).bytes),
          Set("complete", ~getConfig(opattropts).err) >>

CaseOptions(attr) ==
    LET opattropts == GetMap(attr, "options")
    IN << Chk(IsMap(attr, "options")),
          Req(IsStr(opattropts, "config"), "configFile", GetStr(opattropts, "config")),
          Set("options", GetObj(attr, "options")),
          Set("configYAML", getConfig(opattropts).bytes),
          Set("complete", TRUE) >>

Cases(msg, attr, ts) ==
    CASE msg = "MongoDB starting" -> CaseStarting(attr, ts)
      [] msg = "Process Details" -> CaseProcessDetails(attr, ts)
      [] msg = "Build Info" -> CaseBuildInfo(attr)
      [] msg = "Operating System" -> CaseOperatingSystem(attr)
      [] msg = "Node is a member of a replica set" -> CaseMember(attr)
      [] msg = "New replica set config in use" -> CaseNewConfig(attr)
      [] msg = "Options set by command line" -> CaseOptions(attr)

\* Mutant: the banner prefix is never recognized.
HasPrefixNever(line, prefix) == FALSE

HasPrefix(line, prefix) == line.head = prefix

Warning(name) == [kind |-> "warning", line |-> name]
Notice(ts, bytes) == [kind |-> "notice", when |-> FormatUTC(ts), doc |-> bytes]

\* logLine(line, &startupInfo): what it returns (ret: a nil or non-nil *logT,
\* err), what it prints, the accumulator it leaves, and whether it panicked.
Returned(ret, err, ts, info, printed) ==
    [ret |-> ret, err |-> err, timeStamp |-> ts, info |-> info, out |-> printed,
     panic |-> FALSE]
Panicked(info) ==
    [ret |-> "nil", err |-> "none", timeStamp |-> ZeroTime, info |-> info, out |-> << >>,
     panic |-> TRUE]

logLine(name, info, v) ==
    LET line == LineTable[name] IN
    IF ~line.valid
    THEN IF HasPrefix(line, skippingLines)
         THEN Returned("nil", "none", ZeroTime, info, << Warning(name) >>)
         ELSE Returned("nil", "json", ZeroTime, info, << >>)
    ELSE
    LET parsed == timeParse(timeLayout, line.date) IN
    IF parsed.err
    THEN Returned("nil", "timestamp", ZeroTime, info, << >>)
    ELSE
    LET ts == parsed.t IN
    IF line.attr.t = "nil" \/ line.c \notin Components(v)
    THEN Returned("msg", "none", ts, info, << >>)
    ELSE IF line.attr.t # "map"
    THEN Panicked(info)
    ELSE IF line.msg \notin Messages(v)
    THEN Returned("msg", "none", ts, info, << >>)
    ELSE
    LET attr == line.attr.m
        ran == Run(info, Cases(line.msg, attr, ts))
    IN  IF ran.panic
        THEN Panicked(ran.info)
        ELSE Returned("msg", "none", ts, ran.info,
                      IF line.msg = "New replica set config in use"
                      THEN << Notice(ts, getConfig(GetMap(attr, "config")).bytes) >>
                      ELSE << >>)

-----------------------------------------------------------------------------
(* printStartup.                                                            *)

Report(info, v) ==
    [ kind |-> "report",
      startMsg |-> IF v = "extended"
                   THEN (IF info.isStartup THEN "Start up" ELSE "Log rotation")
                   ELSE "Startup",
      hostName |-> info.hostName, port |-> info.port, dbPath |-> info.dbPath,
      processID |-> info.processID, when |-> FormatUTC(info.timeStamp),
      version |-> info.version, distro |-> info.distro,
      os |-> info.os, osVersion |-> info.osVersion,
      configYAML |-> info.configYAML,
      replica |-> IF v = "extended" /\ info.replsetConfig.t # "nil"
                  THEN << info.memberState, info.replsetConfigYAML >>
                  ELSE << >> ]

\* Mutant: the report leaves complete set.
printStartupKeepsComplete(info, v) ==
    IF ~info.complete
    THEN [info |-> info, out |-> << >>]
    ELSE [info |-> [info EXCEPT !.isStartup = FALSE],
          out |-> << Report(info, v) >>]

\* Mutant: the report is printed whether or not the accumulator is complete.
printStartupUnguarded(info, v) ==
    [info |-> [info EXCEPT !.complete = FALSE, !.isStartup = FALSE],
     out |-> << Report(info, v) >>]

printStartupKeepsStartup(info, v) ==
    IF ~info.complete
    THEN [info |-> info, out |-> << >>]
    ELSE [info |-> [info EXCEPT !.complete = FALSE],
          out |-> << Report(info, v) >>]

\* Mutant: the report also clears the data directory.
printStartupForgetsDbPath(info, v) ==
    IF ~info.complete
    THEN [info |-> info, out |-> << >>]
    ELSE [info |-> [info EXCEPT !.complete = FALSE, !.isStartup = FALSE, !.dbPath = ""],
          out |-> << Report(info, v) >>]

printStartup(info, v) ==
    IF ~info.complete
    THEN [info |-> info, out |-> << >>]
    ELSE [info |-> [info EXCEPT !.complete = FALSE, !.isStartup = FALSE],
          out |-> << Report(info, v) >>]

-----------------------------------------------------------------------------
(* The files the pass is run on.                                            *)

MaxLen == 2

\* Every file of at most MaxLen lines.
ShortFiles == UNION {[1..n -> LineNames] : n \in 0..MaxLen}

Orderings(S) ==
    {f \in [1..Cardinality(S) -> S] : \A i, j \in DOMAIN f : i # j => f[i] # f[j]}

\* The startup sequence: the four gathering messages in any order, then an
\* "Options set by command line" record, then at most one more line.
StartupFiles ==
    {gather \o << opts >> \o rest :
        gather \in Orderings({"starting", "buildInfo", "operatingSystem", "member"}),
        opts \in {"options", "optionsApart", "optionsBad"},
        rest \in UNION {[1..n -> LineNames] : n \in 0..1}}

Events ==
    {"starting", "startingB", "processDetails", "member", "memberBad",
     "newConfig", "newConfigBad"}

\* Two reports in one pass: at most two event records before a first
\* "Options set by command line" record, at most one before a second.
RotationFiles ==
    {g1 \o << "options" >> \o g2 \o << "options" >> :
        g1 \in {<< >>} \cup {<< a >> : a \in Events}
                      \cup {<< a, b >> : a, b \in Events},
        g2 \in {<< >>} \cup {<< a >> : a \in Events}}

Files == ShortFiles \cup StartupFiles \cup RotationFiles

-----------------------------------------------------------------------------
(* List.                                                                    *)

NoResult == [kind |-> "none"]
Success == [kind |-> "ok"]
OpenError == [kind |-> "open"]
ReadError == [kind |-> "read"]
LineError(err, name) == [kind |-> "line", err |-> err, line |-> name]

Summary(n, first, last) ==
    [ kind |-> "summary", lines |-> n,
      tzHours |-> GoDiv(first.off, SecondsPerHour),
      tzMinutes |-> GoRem(first.off, SecondsPerMinute),
      earliest |-> FormatUTC(first), latest |-> FormatUTC(last),
      duration |-> Sub(last, first) ]

InitOn(F) ==
    /\ variant \in {"baseline", "extended"}
    /\ file \in F
    /\ pc = "open"
    /\ lineCount = 0
    /\ firstTime = TRUE
    /\ earliest = ZeroTime
    /\ latest = ZeroTime
    /\ startupInfo = ZeroInfo
    /\ out = << >>
    /\ result = NoResult
    /\ driver = "none"
    /\ args = << >>
    /\ iFile = 0

Init == InitOn(Files)

\* os.Open succeeds.
Open ==
    /\ pc = "open"
    /\ pc' = "scan"
    /\ UNCHANGED <<variant, file, lineCount, firstTime, earliest, latest,
                   startupInfo, out, result>>
    /\ UNCHANGED mainVars

\* os.Open fails: List returns the error.
OpenFails ==
    /\ pc = "open"
    /\ pc' = "done"
    /\ result' = OpenError
    /\ UNCHANGED <<variant, file, lineCount, firstTime, earliest, latest,
                   startupInfo, out>>
    /\ UNCHANGED mainVars

\* One turn of the loop, from perLine.Scan() to the update of the bounds.
Iterate ==
    /\ pc = "scan"
    /\ lineCount < Len(file)
    /\ LET name == file[lineCount + 1]
           r == logLine(name, startupInfo, variant)
       IN  /\ startupInfo' = r.info
           /\ out' = out \o r.out
           /\ IF r.panic
              THEN /\ pc' = "panic"
                   /\ UNCHANGED <<lineCount, firstTime, earliest, latest, result>>
              ELSE /\ lineCount' = lineCount + 1
                   /\ IF r.ret = "nil"
                      THEN /\ pc' = "scan"
                           /\ UNCHANGED <<firstTime, earliest, latest, result>>
                      ELSE IF r.err # "none"
                      THEN /\ pc' = "done"
                           /\ result' = LineError(r.err, name)
                           /\ UNCHANGED <<firstTime, earliest, latest>>
                      ELSE /\ pc' = "check"
                           /\ firstTime' = FALSE
                           /\ earliest' = IF firstTime \/ Before(r.timeStamp, earliest)
                                          THEN r.timeStamp ELSE earliest
                           /\ latest' = IF firstTime \/ After(r.timeStamp, latest)
                                        THEN r.timeStamp ELSE latest
                           /\ UNCHANGED result
    /\ UNCHANGED <<variant, file>>
    /\ UNCHANGED mainVars

\* The end of the turn: if startupInfo.complete { printStartup(&startupInfo) }.
Check ==
    /\ pc = "check"
    /\ pc' = "scan"
    /\ IF startupInfo.complete
       THEN LET p == printStartup(startupInfo, variant)
            IN  /\ startupInfo' = p.info
                /\ out' = out \o p.out
       ELSE UNCHANGED <<startupInfo, out>>
    /\ UNCHANGED <<variant, file, lineCount, firstTime, earliest, latest, result>>
    /\ UNCHANGED mainVars

\* perLine.Scan() returns false at the end of the stream, perLine.Err() is nil.
EndOfStream ==
    /\ pc = "scan"
    /\ lineCount = Len(file)
    /\ pc' = "done"
    /\ out' = Append(out, Summary(lineCount, earliest, latest))
    /\ result' = Success
    /\ UNCHANGED <<variant, file, lineCount, firstTime, earliest, latest, startupInfo>>
    /\ UNCHANGED mainVars

\* perLine.Scan() returns false on a read error, perLine.Err() is not nil.
ReadFails ==
    /\ pc = "scan"
    /\ pc' = "done"
    /\ result' = ReadError
    /\ UNCHANGED <<variant, file, lineCount, firstTime, earliest, latest,
                   startupInfo, out>>
    /\ UNCHANGED mainVars

Next == Open \/ OpenFails \/ Iterate \/ Check \/ EndOfStream \/ ReadFails

Spec == Init /\ [][Next]_vars

-----------------------------------------------------------------------------
(* printStartup called directly, on any accumulator a pass can hold.        *)

\* The accumulator after the lines of f: logLine on each line and, between
\* two lines, the report of a complete accumulator.
RECURSIVE Accumulate(_, _, _)
Accumulate(f, info, v) ==
    IF Len(f) = 0 THEN info
    ELSE LET r == logLine(Head(f), info, v) IN
         IF r.panic THEN info
         ELSE Accumulate(Tail(f),
                         IF Len(f) > 1 THEN printStartup(r.info, v).info ELSE r.info,
                         v)

InitPrint ==
    /\ variant \in {"baseline", "extended"}
    /\ file = << >>
    /\ pc = "call"
    /\ lineCount = 0
    /\ firstTime = TRUE
    /\ earliest = ZeroTime
    /\ latest = ZeroTime
    /\ startupInfo \in {Accumulate(f, ZeroInfo, variant) : f \in Files}
    /\ out = << >>
    /\ result = NoResult
    /\ driver = "none"
    /\ args = << >>
    /\ iFile = 0

CallPrintStartup ==
    /\ pc = "call"
    /\ pc' = "returned"
    /\ LET p == printStartup(startupInfo, variant)
       IN  /\ startupInfo' = p.info
           /\ out' = out \o p.out
    /\ UNCHANGED <<variant, file, lineCount, firstTime, earliest, latest, result>>
    /\ UNCHANGED mainVars

NextPrint == CallPrintStartup

SpecPrint == InitPrint /\ [][NextPrint]_vars

-----------------------------------------------------------------------------
(* main: the info subcommand over its file arguments.  The repository holds *)
(* two versions of it: one loops over every argument ("loop"), the other    *)
(* runs List on the first argument only and exits on its error ("single").  *)

MaxFiles == 2

ArgFiles ==
    { << "starting", "options" >>, << "banner", "other" >>, << "garbage" >>,
      << "badDate" >>, << "startingNoPort", "options" >> }

ArgLists == UNION {[1..n -> ArgFiles] : n \in 0..MaxFiles}

StartMarker(i) == [kind |-> "start", arg |-> i]
EndMarker(i) == [kind |-> "end", arg |-> i]
ErrorLine(i, err) == [kind |-> "error", arg |-> i, err |-> err]
FileNameRequired == [kind |-> "required"]

InitMain ==
    /\ variant \in {"baseline", "extended"}
    /\ driver \in {"loop", "single"}
    /\ args \in ArgLists
    /\ iFile = 0
    /\ file = << >>
    /\ pc = "main"
    /\ lineCount = 0
    /\ firstTime = TRUE
    /\ earliest = ZeroTime
    /\ latest = ZeroTime
    /\ startupInfo = ZeroInfo
    /\ out = << >>
    /\ result = NoResult

\* No file argument: the message and os.Exit(3).
NoFiles ==
    /\ pc = "main"
    /\ Len(args) = 0
    /\ pc' = "exit3"
    /\ out' = Append(out, FileNameRequired)
    /\ UNCHANGED <<variant, file, lineCount, firstTime, earliest, latest,
                   startupInfo, result, mainVars>>

\* The call of info.List on the next argument, after the START marker in
\* the loop; List starts with fresh local variables.
StartPass ==
    /\ pc = "main"
    /\ iFile < Len(args)
    /\ driver = "single" => iFile = 0
    /\ file' = args[iFile + 1]
    /\ out' = IF driver = "loop" THEN Append(out, StartMarker(iFile + 1)) ELSE out
    /\ pc' = "open"
    /\ lineCount' = 0
    /\ firstTime' = TRUE
    /\ earliest' = ZeroTime
    /\ latest' = ZeroTime
    /\ startupInfo' = ZeroInfo
    /\ result' = NoResult
    /\ UNCHANGED <<variant, mainVars>>

\* List has returned: its error is printed; the loop prints the END marker
\* and goes on, the other main exits with 2 on an error.
EndPass ==
    /\ pc = "done"
    /\ driver # "none"
    /\ LET failed == result # Success
           printed == IF failed THEN << ErrorLine(iFile + 1, result) >> ELSE << >>
       IN  IF driver = "loop"
           THEN /\ out' = out \o printed \o << EndMarker(iFile + 1) >>
                /\ pc' = "main"
           ELSE /\ out' = out \o printed
                /\ pc' = IF failed THEN "exit2" ELSE "exit0"
    /\ iFile' = iFile + 1
    /\ UNCHANGED <<variant, file, lineCount, firstTime, earliest, latest,
                   startupInfo, result, driver, args>>

\* The loop is over: main returns.
Exit ==
    /\ pc = "main"
    /\ driver = "loop"
    /\ Len(args) > 0
    /\ iFile = Len(args)
    /\ pc' = "exit0"
    /\ UNCHANGED <<variant, file, lineCount, firstTime, earliest, latest,
                   startupInfo, out, result, mainVars>>

NextMain ==
    \/ NoFiles \/ StartPass \/ EndPass \/ Exit
    \/ Open \/ OpenFails \/ Iterate \/ Check \/ EndOfStream \/ ReadFails

SpecMain == InitMain /\ [][NextMain]_vars

-----------------------------------------------------------------------------
(* What the claims speak of.                                                *)

Reports(o) == SelectSeq(o, LAMBDA x : x.kind = "report")

IsBanner(name) == ~LineTable[name].valid /\ LineTable[name].head = skippingLines
ParseFailure(name) ==
    \/ ~LineTable[name].valid /\ LineTable[name].head # skippingLines
    \/ LineTable[name].valid /\ LineTable[name].date.layout # timeLayout
Decodable(name) == LineTable[name].valid /\ LineTable[name].date.layout = timeLayout
Instant(name) == LineTable[name].date.wall - 1000 * LineTable[name].date.off

-----------------------------------------------------------------------------
(* C1: the first line on which the decoder reports a parse failure makes    *)
(* the pass return an error that holds the raw text of that line, and no    *)
(* line after it is processed.  Stated of every line read so far: once a    *)
(* parse failure has been read, List has returned the error of that line    *)
(* and has read nothing more.                                               *)
C1_FailureEndsPass ==
    \A i \in 1..lineCount :
        ParseFailure(file[i]) =>
            /\ pc = "done"
            /\ result.kind = "line"
            /\ result.line = file[i]
            /\ lineCount = i

-----------------------------------------------------------------------------
(* The shape of the records, as the messages are described: the keys of    *)
(* the attribute bag each recognized message carries, with their types.     *)

Msg(name) == LineTable[name].msg
Attr(name) == LineTable[name].attr.m

WellFormed(name) ==
    /\ Decodable(name)
    /\ LineTable[name].c \in {"CONTROL", "REPL"}
    /\ LineTable[name].attr.t = "map"
    /\ Marshalable(LineTable[name].attr)
    /\ CASE Msg(name) = "MongoDB starting" ->
                /\ IsNum(Attr(name), "pid") /\ IsNum(Attr(name), "port")
                /\ IsStr(Attr(name), "host") /\ IsStr(Attr(name), "dbPath")
         [] Msg(name) = "Process Details" ->
                /\ IsStr(Attr(name), "pid") /\ IsNum(Attr(name), "port")
                /\ IsStr(Attr(name), "host")
                /\ Attr(name).pid.s \in DOMAIN DecimalStrings
         [] Msg(name) = "Build Info" ->
                /\ IsMap(Attr(name), "buildInfo")
                /\ IsStr(Attr(name).buildInfo.m, "version")
                /\ IsMap(Attr(name).buildInfo.m, "environment")
                /\ IsStr(Attr(name).buildInfo.m.environment.m, "distmod")
         [] Msg(name) = "Operating System" ->
                /\ IsMap(Attr(name), "os")
                /\ IsStr(Attr(name).os.m, "name") /\ IsStr(Attr(name).os.m, "version")
         [] Msg(name) = "Node is a member of a replica set" ->
                IsStr(Attr(name), "memberState") /\ IsMap(Attr(name), "config")
         [] Msg(name) = "New replica set config in use" ->
                IsMap(Attr(name), "config")
         [] Msg(name) = "Options set by command line" ->
                IsMap(Attr(name), "options") /\ IsStr(Attr(name).options.m, "config")
         [] OTHER -> FALSE

-----------------------------------------------------------------------------
\* The first five lines are the startup sequence: the four gathering messages
\* in some order, then "Options set by command line", every record well formed.
StartupSequence ==
    /\ variant = "extended"
    /\ Len(file) >= 5
    /\ \A i \in 1..5 : LineTable[file[i]].valid /\ WellFormed(file[i])
    /\ {Msg(file[i]) : i \in 1..4} =
          {"MongoDB starting", "Build Info", "Operating System",
           "Node is a member of a replica set"}
    /\ Msg(file[5]) = "Options set by command line"

\* The record of the startup sequence that carries message m.
Carrier(m) == file[CHOOSE i \in 1..5 : Msg(file[i]) = m]

\* The report the records of the startup sequence call for.
StartupReport ==
    LET s == Carrier("MongoDB starting")
        b == Carrier("Build Info")
        o == Carrier("Operating System")
        r == Carrier("Node is a member of a replica set")
        c == Carrier("Options set by command line")
    IN  [ kind |-> "report", startMsg |-> "Start up",
          hostName |-> Attr(s).host.s, port |-> Attr(s).port.n,
          dbPath |-> Attr(s).dbPath.s, processID |-> Attr(s).pid.n,
          when |-> Instant(s) \div 1000,
          version |-> Attr(b).buildInfo.m.version.s,
          distro |-> Attr(b).buildInfo.m.environment.m.distmod.s,
          os |-> Attr(o).os.m.name.s, osVersion |-> Attr(o).os.m.version.s,
          configYAML |-> Yaml(Attr(c).options.m),
          replica |-> << Attr(r).memberState.s, Yaml(Attr(r).config.m) >> ]

(* C2: over the five startup messages, "Options set by command line" last,  *)
(* complete is true exactly once, right after the fifth record (and at no   *)
(* other point up to there), none of the five records ends the process,    *)
(* no report is printed before, and the one report printed then holds       *)
(* host, port, dbPath, pid and timestamp of "MongoDB starting", version and *)
(* distro, OS name and version, the member state with the rendered replica  *)
(* config, and the rendered options.                                        *)
C2_StartupSequenceReportsOnce ==
    (StartupSequence /\ lineCount <= 5) =>
        /\ pc = "panic" => lineCount = 5
        /\ startupInfo.complete <=> (lineCount = 5 /\ pc = "check")
        /\ (lineCount < 5 \/ pc = "check") => Reports(out) = << >>
        /\ (lineCount = 5 /\ pc # "check") => Reports(out) = << StartupReport >>

C2_Witness ==
    /\ StartupSequence
    /\ Msg(file[4]) = "MongoDB starting"
    /\ lineCount = 5
    /\ pc = "scan"
    /\ Len(Reports(out)) = 1

-----------------------------------------------------------------------------
\* An "Options set by command line" record that is accepted: it decodes, has
\* an attribute bag and an allow-listed component.
Accepted(name, v) ==
    /\ Decodable(name)
    /\ Msg(name) = "Options set by command line"
    /\ LineTable[name].attr.t # "nil"
    /\ LineTable[name].c \in (IF v = "extended" THEN {"CONTROL", "REPL"} ELSE {"CONTROL"})

AcceptedAmong(n) == Cardinality({i \in 1..n : Accepted(file[i], variant)})

\* The reports printed so far are as many as the accepted records read.
ReportCountKept ==
    /\ pc \in {"scan", "done"} => Len(Reports(out)) = AcceptedAmong(lineCount)
    /\ pc = "check" => Len(Reports(out)) = AcceptedAmong(lineCount - 1)

(* C3: every accepted "Options set by command line" record triggers exactly *)
(* one report, printed before the next line is read: whenever List is about *)
(* to read a line, or has returned, there are as many reports as accepted   *)
(* records read; before the check of the turn the last one is still due;    *)
(* and the process never ends on an accepted record without its report.     *)
C3_OneReportPerOptions ==
    /\ ReportCountKept
    /\ pc = "panic" => ~Accepted(file[lineCount + 1], variant)

-----------------------------------------------------------------------------
Decoded == {i \in 1..lineCount : Decodable(file[i])}
MinInstant == CHOOSE m \in {Instant(file[i]) : i \in Decoded} :
                  \A i \in Decoded : m <= Instant(file[i])
MaxInstant == CHOOSE m \in {Instant(file[i]) : i \in Decoded} :
                  \A i \in Decoded : m >= Instant(file[i])

(* C4: once N >= 1 decodable records have been read, earliest and latest    *)
(* are the least and the greatest of their timestamps, in any input order,  *)
(* and earliest <= latest; the summary prints these two bounds and their    *)
(* difference; with N = 1 the two are equal and the duration is zero.       *)
C4_BoundsAreMinMax ==
    Decoded # {} =>
        /\ earliest.inst = MinInstant
        /\ latest.inst = MaxInstant
        /\ earliest.inst <= latest.inst
        /\ Cardinality(Decoded) = 1 => earliest = latest
        /\ result = Success =>
              LET s == out[Len(out)] IN
              /\ s.kind = "summary"
              /\ s.earliest = MinInstant \div 1000
              /\ s.latest = MaxInstant \div 1000
              /\ s.duration = MaxInstant - MinInstant
              /\ Cardinality(Decoded) = 1 => s.duration = 0

C4_Witness ==
    /\ result = Success
    /\ Cardinality(Decoded) >= 3
    /\ \E i, j \in Decoded : i < j /\ Instant(file[i]) > Instant(file[j])
    /\ \E i, j \in Decoded :
          /\ Instant(file[i]) < Instant(file[j])
          /\ LineTable[file[i]].date.wall > LineTable[file[j]].date.wall

-----------------------------------------------------------------------------
BannerNext == pc = "scan" /\ lineCount < Len(file) /\ IsBanner(file[lineCount + 1])

(* C5: reading a banner line adds one to the line count, prints the warning *)
(* and nothing else (no report), leaves earliest, latest, the first-record  *)
(* flag and every accumulator field as they were, and does not end the      *)
(* pass: List goes on to the next line with no error.  (The only other step *)
(* from there is a read error of the stream itself.)                        *)
C5_BannerOnlyCounts ==
    [][BannerNext =>
          \/ ReadFails
          \/ /\ lineCount' = lineCount + 1
             /\ out' = Append(out, Warning(file[lineCount + 1]))
             /\ pc' = "scan"
             /\ result' = NoResult
             /\ UNCHANGED <<earliest, latest, firstTime, startupInfo>>]_vars

C5_Witness ==
    /\ pc = "scan"
    /\ lineCount >= 2
    /\ IsBanner(file[lineCount])
    /\ ~firstTime
    /\ startupInfo # ZeroInfo
    /\ out[Len(out)] = Warning(file[lineCount])

-----------------------------------------------------------------------------
\* The 6-line file of the concrete scenario, its "Options set by command line"
\* record carrying config and options as two attributes.
ScenarioFile ==
    << "starting", "buildInfo", "operatingSystem", "member", "optionsApart", "banner" >>

(* C6: on the 6-line scenario file the pass counts 6 lines, prints no       *)
(* report up to and including the replica-membership record, and prints     *)
(* exactly one report, headed "Start up", with host h1, port 27017, pid     *)
(* 100, version 6.0.1, member state PRIMARY, the rendered options and the   *)
(* rendered replica config.                                                 *)
C6_ScenarioFile ==
    (file = ScenarioFile /\ variant = "extended") =>
        /\ pc # "panic"
        /\ lineCount <= 4 => Reports(out) = << >>
        /\ result = Success =>
              /\ out[Len(out)].lines = 6
              /\ Len(Reports(out)) = 1
              /\ LET r == Reports(out)[1] IN
                 /\ r.startMsg = "Start up"
                 /\ r.hostName = "h1" /\ r.port = 27017 /\ r.processID = 100
                 /\ r.version = "6.0.1"
                 /\ r.configYAML = Yaml([net |-> Obj([port |-> Num(27017)])])
                 /\ r.replica = << "PRIMARY", Yaml(ReplDoc) >>

-----------------------------------------------------------------------------
OnlyWellFormedLines == \A i \in 1..Len(file) : IsBanner(file[i]) \/ WellFormed(file[i])

(* C7: on a file whose lines are all well-formed records of the recognized  *)
(* messages or banner lines, no line fails to decode or ends the process,   *)
(* List returns only at the end of the stream or on an error of the file    *)
(* system (open, read), and when the stream ends it returns success with a line count equal to the number of  *)
(* record lines plus the number of banner lines.                            *)
C7_WellFormedFileSucceeds ==
    OnlyWellFormedLines =>
        /\ pc # "panic"
        /\ result.kind # "line"
        /\ pc = "done" => result \in {Success, OpenError, ReadError}
        /\ result = Success =>
              /\ lineCount = Len(file)
              /\ out[Len(out)].kind = "summary"
              /\ out[Len(out)].lines =
                    Cardinality({i \in 1..Len(file) : ~IsBanner(file[i])})
                    + Cardinality({i \in 1..Len(file) : IsBanner(file[i])})

C7_Witness ==
    /\ OnlyWellFormedLines
    /\ result = Success
    /\ Len(file) = 6
    /\ IsBanner(file[6])
    /\ out[Len(out)].lines = 6

-----------------------------------------------------------------------------
(* C8: complete is true only between the processing of an accepted          *)
(* "Options set by command line" record and the report of the same turn:    *)
(* when it is true, List stands at the check of a turn whose line was such  *)
(* a record; when List is about to read a line, or has returned, it is      *)
(* false.                                                                   *)
C8_CompleteOnlyUntilReport ==
    /\ startupInfo.complete =>
          /\ pc = "check"
          /\ lineCount >= 1
          /\ Accepted(file[lineCount], variant)
    /\ pc \in {"open", "scan", "done"} => ~startupInfo.complete

C8_Witness ==
    /\ startupInfo.complete
    /\ pc = "check"
    /\ Len(Reports(out)) = 1

-----------------------------------------------------------------------------
(* C9: printStartup on an accumulator whose complete flag is false prints   *)
(* nothing and changes no field, whatever the other fields hold.            *)
C9_IncompleteIsNoOp ==
    [][(pc = "call" /\ ~startupInfo.complete) =>
          (out' = out /\ startupInfo' = startupInfo)]_vars

\* All the startup fields but the options have been gathered.
C9_Witness ==
    /\ pc = "returned"
    /\ ~startupInfo.complete
    /\ out = << >>
    /\ startupInfo.isStartup
    /\ startupInfo.hostName # "" /\ startupInfo.version # "" /\ startupInfo.os # ""
    /\ startupInfo.replsetConfig # Null
    /\ startupInfo.options = Null

-----------------------------------------------------------------------------
(* C10: the summary reports the zone offset of the earliest timestamp as    *)
(* hours and minutes with hours*3600 + minutes*60 equal to the offset in    *)
(* seconds, both parts carrying its sign (-07:00 is -7 hours 0 minutes,     *)
(* +05:30 is 5 hours 30 minutes).                                           *)
C10_OffsetInHoursAndMinutes ==
    result = Success =>
        LET s == out[Len(out)] IN
        /\ s.tzHours * SecondsPerHour + s.tzMinutes * SecondsPerMinute = earliest.off
        /\ earliest.off >= 0 => (s.tzHours >= 0 /\ s.tzMinutes >= 0)
        /\ earliest.off <= 0 => (s.tzHours <= 0 /\ s.tzMinutes <= 0)

-----------------------------------------------------------------------------
(* C11: when several file paths are given, every path is processed in       *)
(* argument order, each pass between its START and its END marker, and a    *)
(* pass that ends in a fatal error of its file has the error printed and    *)
(* never keeps the remaining files from their passes.  Stated of the main   *)
(* that loops: no pass ends the process, a finished pass over a file with   *)
(* a parse failure has printed an error, and at the exit the markers are    *)
(* START 1, END 1, ..., START n, END n.                                     *)
Markers(o) == SelectSeq(o, LAMBDA x : x.kind \in {"start", "end"})

ErrorPrinted(i) == \E j \in DOMAIN out : out[j].kind = "error" /\ out[j].arg = i

C11_EveryFileHasItsPass ==
    driver = "loop" =>
        /\ pc # "panic"
        /\ \A i \in 1..iFile :
              (\E k \in DOMAIN args[i] : ParseFailure(args[i][k])) => ErrorPrinted(i)
        /\ pc = "exit0" =>
              /\ Len(Markers(out)) = Len(args) + Len(args)
              /\ \A i \in 1..Len(args) :
                    /\ Markers(out)[i + i - 1] = StartMarker(i)
                    /\ Markers(out)[i + i] = EndMarker(i)

-----------------------------------------------------------------------------
\* The line is a record of message m that the extended logLine merges.
Carries(name, m) ==
    /\ Decodable(name)
    /\ LineTable[name].attr.t = "map"
    /\ LineTable[name].c \in {"CONTROL", "REPL"}
    /\ Msg(name) = m

\* The line is a record of message m that logLine of variant v merges.
Merges(name, m, v) ==
    /\ Carries(name, m)
    /\ v = "baseline" =>
          /\ LineTable[name].c = "CONTROL"
          /\ m \in {"MongoDB starting", "Build Info", "Operating System",
                     "Options set by command line"}

\* The lines read so far that complete the accumulator, and the k-th of them.
ReportLines ==
    {i \in 1..lineCount : Merges(file[i], "Options set by command line", variant)}
ReportLine(k) == CHOOSE i \in ReportLines : Cardinality({j \in ReportLines : j <= i}) = k

\* The trigger records between the report before the k-th and the k-th.
TriggersBefore(k) ==
    {j \in 1..(ReportLine(k) - 1) :
        /\ k > 1 => j > ReportLine(k - 1)
        /\ \/ Carries(file[j], "MongoDB starting")
           \/ Carries(file[j], "Process Details")}

Last(S) == CHOOSE j \in S : \A l \in S : l <= j

HeaderOf(k) ==
    IF TriggersBefore(k) # {} /\ Msg(file[Last(TriggersBefore(k))]) = "MongoDB starting"
    THEN "Start up"
    ELSE "Log rotation"

(* C12: in the extended variant the header of a report is "Start up"        *)
(* exactly when isStartup is true at the time of the report, that is when   *)
(* the last trigger record since the previous report (or the start of the   *)
(* pass) is a "MongoDB starting" record; in every other case, a report      *)
(* with no trigger record before it included, it is "Log rotation".         *)
C12_HeaderTellsTheTrigger ==
    variant = "extended" =>
        /\ \A k \in 1..Len(Reports(out)) : Reports(out)[k].startMsg = HeaderOf(k)
        /\ (pc = "check" /\ startupInfo.complete) =>
              (startupInfo.isStartup <=> HeaderOf(Len(Reports(out)) + 1) = "Start up")

\* Two reports: the first after "MongoDB starting" then "Process Details",
\* a log rotation; the second after a new "MongoDB starting", a start up.
C12_Witness ==
    /\ variant = "extended"
    /\ Len(Reports(out)) = 2
    /\ \E j \in TriggersBefore(1) : Msg(file[j]) = "MongoDB starting"
    /\ Reports(out)[1].startMsg = "Log rotation"
    /\ Reports(out)[2].startMsg = "Start up"

-----------------------------------------------------------------------------
\* A decodable record that is not accumulated: no attribute bag, or a
\* component outside the allow-list of the variant, or an attribute bag with
\* a message text that the variant does not recognize.
Ignored(name, v) ==
    /\ Decodable(name)
    /\ \/ LineTable[name].attr.t = "nil"
       \/ v = "baseline" /\ LineTable[name].c # "CONTROL"
       \/ v = "extended" /\ LineTable[name].c \notin {"CONTROL", "REPL"}
       \/ /\ LineTable[name].attr.t = "map"
          /\ Msg(name) \notin {"MongoDB starting", "Build Info", "Operating System",
                                "Options set by command line"}
          /\ v = "extended" =>
                Msg(name) \notin {"Process Details", "Node is a member of a replica set",
                                  "New replica set config in use"}

-----------------------------------------------------------------------------
\* The "Node is a member of a replica set" records merged before the k-th
\* report, and the document getConfig renders of a config.
MembersBefore(k) ==
    {j \in 1..(ReportLine(k) - 1) : Carries(file[j], "Node is a member of a replica set")}

Rendered(config) == IF Marshalable(config) THEN Yaml(config.m) ELSE Null

\* The step that prints a report sets complete and isStartup to false and
\* leaves every other field of the accumulator as it was.
ReportFrame ==
    (pc = "check" /\ startupInfo.complete) =>
        /\ Len(Reports(out')) = Len(Reports(out)) + 1
        /\ startupInfo' = [startupInfo EXCEPT !.complete = FALSE, !.isStartup = FALSE]

\* Every report printed after a "Node is a member of a replica set" record
\* shows the member state and the rendered config of the last such record.
ReplicaShown ==
    \A k \in 1..Len(Reports(out)) :
        MembersBefore(k) # {} =>
            LET m == file[Last(MembersBefore(k))]
            IN  Reports(out)[k].replica =
                    << Attr(m).memberState.s, Rendered(Attr(m).config) >>

(* C14: producing a report changes only complete and isStartup, both to     *)
(* false, and leaves every other accumulator field unchanged, the replica   *)
(* fields included; so every report printed after a "Node is a member of a  *)
(* replica set" record of the pass, a later "Log rotation" report included, *)
(* holds the member state and the rendered replica config of the most       *)
(* recent such record.                                                      *)
C14_ReportKeepsReplicaData ==
    [][variant = "extended" => (ReportFrame /\ ReplicaShown')]_vars

-----------------------------------------------------------------------------
(* C15: a "New replica set config in use" record prints exactly one         *)
(* standalone notice whatever the accumulator holds, triggers no report,    *)
(* and leaves every accumulator field unchanged, also when the rendering    *)
(* of its config document fails.  Stated of the turn that reads the record  *)
(* and of the check that ends the turn.                                     *)
C15_NoticeLeavesAccumulator ==
    [][variant = "extended" =>
          /\ ( /\ pc = "scan"
               /\ lineCount < Len(file)
               /\ Carries(file[lineCount + 1], "New replica set config in use") ) =>
                \/ ReadFails
                \/ /\ pc' = "check"
                   /\ Len(out') = Len(out) + 1
                   /\ SubSeq(out', 1, Len(out)) = out
                   /\ out'[Len(out')].kind = "notice"
                   /\ startupInfo' = startupInfo
          /\ (pc = "check" /\ Carries(file[lineCount], "New replica set config in use")) =>
                UNCHANGED <<out, startupInfo>>]_vars

-----------------------------------------------------------------------------
\* The next line is a record of message m with the keys its case reads, and
\* yaml.Marshal returns an error for the structure under key.
RenderFails(name, m, key) ==
    /\ Carries(name, m)
    /\ IsMap(Attr(name), key)
    /\ ~Marshalable(Attr(name)[key])
    /\ m = "Options set by command line" => IsStr(Attr(name)[key].m, "config")
    /\ m = "Node is a member of a replica set" => IsStr(Attr(name), "memberState")

(* C16: a rendering failure is never fatal.  When the options of an         *)
(* "Options set by command line" record cannot be rendered, the rendered    *)
(* options document becomes empty, complete is still set and the check of   *)
(* the turn prints exactly one report; when the config of a "Node is a      *)
(* member of a replica set" record cannot be rendered, the rendered replica *)
(* document becomes empty, member state and replica config are stored, and  *)
(* the pass goes on to the next line.                                       *)
C16_RenderingFailureIsNotFatal ==
    [][variant = "extended" =>
        LET next == file[lineCount + 1]
            last == file[lineCount]
            reading == pc = "scan" /\ lineCount < Len(file)
        IN
          /\ (reading /\ RenderFails(next, "Options set by command line", "options")) =>
                \/ ReadFails
                \/ /\ pc' = "check" /\ result' = NoResult
                   /\ startupInfo'.configYAML = Null
                   /\ startupInfo'.complete
          /\ (pc = "check" /\ RenderFails(last, "Options set by command line", "options")) =>
                /\ pc' = "scan" /\ result' = NoResult
                /\ Len(Reports(out')) = Len(Reports(out)) + 1
                /\ Reports(out')[Len(Reports(out'))].configYAML = Null
          /\ (reading /\ RenderFails(next, "Node is a member of a replica set", "config")) =>
                \/ ReadFails
                \/ /\ pc' = "check" /\ result' = NoResult
                   /\ startupInfo'.replsetConfigYAML = Null
                   /\ startupInfo'.memberState = Attr(next).memberState.s
                   /\ startupInfo'.replsetConfig = Attr(next).config
          /\ (pc = "check" /\ RenderFails(last, "Node is a member of a replica set", "config")) =>
                pc' = "scan" /\ result' = NoResult]_vars

\* A pass that met both failures and ended well: its report holds an empty
\* options document, the member state and an empty replica document.
C16_Witness ==
    /\ variant = "extended"
    /\ result = Success
    /\ \E i, j \in 1..lineCount :
          /\ i < j
          /\ RenderFails(file[i], "Node is a member of a replica set", "config")
          /\ RenderFails(file[j], "Options set by command line", "options")
    /\ Len(Reports(out)) = 1
    /\ Reports(out)[1].configYAML = Null
    /\ Reports(out)[1].replica[2] = Null
    /\ Reports(out)[1].replica[1] # ""

-----------------------------------------------------------------------------
\* A record that matches a recognized identity of the variant and lacks a
\* required attribute key or holds it with the wrong type.
Malformed(name, v) ==
    /\ Decodable(name)
    /\ ~Ignored(name, v)
    /\ Marshalable(LineTable[name].attr)
    /\ ~WellFormed(name)

(* C17: for a record that matches a recognized identity, a required         *)
(* attribute key that is missing or of the wrong type is a parse error of   *)
(* that line: the decoder returns an error for the line, List returns it,   *)
(* nothing of the line is stored in the accumulator and the process is      *)
(* never terminated.                                                        *)
C17_FieldErrorIsParseError ==
    /\ pc # "panic"
    /\ \A i \in 1..lineCount :
          Malformed(file[i], variant) =>
              /\ i = lineCount
              /\ pc = "done"
              /\ result = LineError("field", file[i])

-----------------------------------------------------------------------------
\* The last of the first n lines that is a merged record of a message of M,
\* 0 when there is none.
LastMerged(M, n) ==
    LET S == {j \in 1..n : \E m \in M : Merges(file[j], m, variant)}
    IN  IF S = {} THEN 0 ELSE Last(S)

\* The value of field f written by the last record among the first n lines
\* that writes f, zero when no record has written it.
WrittenBy(j, zero, value(_)) == IF j = 0 THEN zero ELSE value(file[j])

TriggerOf(n) == LastMerged({"MongoDB starting", "Process Details"}, n)

PidOf(name) ==
    IF Msg(name) = "MongoDB starting" THEN Attr(name).pid.n ELSE Atoi(Attr(name).pid.s).n

\* The replica block: nothing before the first member record; afterwards the
\* member state of the last member record and the last document written, by
\* that record or by a later "New replica set config in use" record whose
\* own rendering failed (which writes the empty document).
ReplicaOf(n) ==
    LET member == LastMerged({"Node is a member of a replica set"}, n)
        cleared == {j \in (member + 1)..n :
                       /\ Merges(file[j], "New replica set config in use", variant)
                       /\ ~Marshalable(Attr(file[j]).config)}
    IN  IF member = 0 THEN << >>
        ELSE << Attr(file[member]).memberState.s,
                IF cleared # {} THEN Null ELSE Rendered(Attr(file[member]).config) >>

\* The report that the record at line n, an "Options set by command line"
\* record, is to print, but for its header.
ExpectedFields(n) ==
    [ hostName |-> WrittenBy(TriggerOf(n), "", LAMBDA l : Attr(l).host.s),
      port |-> WrittenBy(TriggerOf(n), 0, LAMBDA l : Attr(l).port.n),
      processID |-> WrittenBy(TriggerOf(n), 0, PidOf),
      when |-> WrittenBy(TriggerOf(n), 0, LAMBDA l : Instant(l) \div 1000),
      dbPath |-> WrittenBy(LastMerged({"MongoDB starting"}, n), "",
                           LAMBDA l : Attr(l).dbPath.s),
      version |-> WrittenBy(LastMerged({"Build Info"}, n), "",
                            LAMBDA l : Attr(l).buildInfo.m.version.s),
      distro |-> WrittenBy(LastMerged({"Build Info"}, n), "",
                           LAMBDA l : Attr(l).buildInfo.m.environment.m.distmod.s),
      os |-> WrittenBy(LastMerged({"Operating System"}, n), "",
                       LAMBDA l : Attr(l).os.m.name.s),
      osVersion |-> WrittenBy(LastMerged({"Operating System"}, n), "",
                              LAMBDA l : Attr(l).os.m.version.s),
      configYAML |-> Rendered(Attr(file[n]).options),
      replica |-> ReplicaOf(n) ]

ReportFields ==
    {"hostName", "port", "processID", "when", "dbPath", "version", "distro",
     "os", "osVersion", "configYAML", "replica"}

ShownFields(r) == [f \in ReportFields |-> r[f]]

(* C18: within one pass every field printed in a report equals the value    *)
(* written by the most recent record of the pass that sets that field, or   *)
(* the zero value when no record has set it, however many reports were      *)
(* printed in between: the dbPath of a "Log rotation" report is that of the *)
(* most recent "MongoDB starting" record, and a report with no new trigger  *)
(* record repeats host, port, pid and timestamp of the previous event.      *)
C18_ReportShowsLastWrites ==
    \A k \in 1..Len(Reports(out)) :
        ShownFields(Reports(out)[k]) = ExpectedFields(ReportLine(k))

\* A second report, a log rotation: host and pid are those of the "Process
\* Details" record read after the first report, the dbPath is still that of
\* the "MongoDB starting" record read before the first report.
C18_Witness ==
    /\ variant = "extended"
    /\ Len(Reports(out)) = 2
    /\ Reports(out)[2].startMsg = "Log rotation"
    /\ TriggerOf(ReportLine(2)) > ReportLine(1)
    /\ LastMerged({"MongoDB starting"}, ReportLine(2)) \in 1..ReportLine(1)
    /\ Reports(out)[2].dbPath = Reports(out)[1].dbPath
    /\ Reports(out)[2].dbPath # ""
    /\ Reports(out)[2].hostName # Reports(out)[1].hostName
    /\ Reports(out)[2].processID # Reports(out)[1].processID

-----------------------------------------------------------------------------
(* C19: when logLine returns a parse failure for a line (invalid JSON       *)
(* without the banner prefix, or an invalid timestamp), it returns before   *)
(* touching the accumulator: every accumulator field, earliest, latest and  *)
(* the first-record flag are after the line what they were before it, even  *)
(* when the JSON of the line carries a recognized message text and an       *)
(* allow-listed component.                                                  *)
C19_ParseFailureTouchesNothing ==
    [][(pc = "scan" /\ lineCount < Len(file) /\ ParseFailure(file[lineCount + 1])) =>
          \/ ReadFails
          \/ /\ lineCount' = lineCount + 1
             /\ UNCHANGED <<startupInfo, earliest, latest, firstTime>>]_vars

\* An "Options set by command line" record of the allow-listed component
\* with an invalid timestamp, read after a "MongoDB starting" record: the
\* accumulator holds the host and is not complete, the bounds are those of
\* the first record.
C19_Witness ==
    /\ lineCount = 2
    /\ Carries(file[1], "MongoDB starting")
    /\ ParseFailure(file[2])
    /\ LineTable[file[2]].valid
    /\ LineTable[file[2]].c = "CONTROL"
    /\ Msg(file[2]) = "Options set by command line"
    /\ startupInfo.hostName # ""
    /\ ~startupInfo.complete
    /\ ~firstTime
    /\ earliest.inst = Instant(file[1])
    /\ latest.inst = Instant(file[1])

====
